---- MODULE Spec2Model ----
(***************************************************************************)
(* Culture Pulse: the per-category pulse scorers (DataPull/*.py) and the   *)
(* aggregator (RadarChart.py: collect_all_data, normalize_scores_relative, *)
(* print_summary, interactive_menu).                                       *)
(*                                                                         *)
(* Scores are kept in hundredths of a point (a Python float rounded to two *)
(* decimals is the integer 100 * value), ages of timestamps in minutes.    *)
(***************************************************************************)
EXTENDS Integers, Sequences, FiniteSets, TLC

VARIABLES
    news_data,      \* SpecScore: the dict handed to calculate_pulse_score
    stdResult,      \* SpecScore: outcome of the standard scorer on news_data
    sportsResult,   \* SpecScore: outcome of the sports scorer on news_data
    normIn,         \* SpecNorm: the list handed to normalize_scores_relative
    normOut,        \* SpecNorm: what normalize_scores_relative returned
    pc,             \* Spec: the statement interactive_menu is at
    choice,         \* Spec: the menu choice read from input()
    locals,         \* Spec: interactive_menu's days, num_periods, specific_date
    api_key,        \* Spec: NEWS_API_KEY as every puller's __init__ reads it
    collectArgs,    \* Spec: the arguments of the running collect_all_data call
    catIdx,         \* Spec: index of the category collect_all_data is at
    all_data,       \* Spec: collect_all_data's list
    pulled,         \* Spec: what each puller's get_*_pulse returned or raised
    pulse_data,     \* Spec: interactive_menu's local pulse_data (data)
    httpLog,        \* Spec: the requests.get calls issued, in order
    callLog,        \* Spec: calls and returns of collect and normalize
    summary,        \* Spec: the rows print_summary printed
    chart,          \* Spec: the list create_radar_chart was given
    uncaught        \* Spec: the exception that left interactive_menu, if any

vars == <<news_data, stdResult, sportsResult, normIn, normOut, pc, choice,
          locals, api_key, collectArgs, catIdx, all_data, pulled, pulse_data,
          httpLog, callLog, summary, chart, uncaught>>

scoreVars == <<news_data, stdResult, sportsResult>>
normVars == <<normIn, normOut>>
menuVars == <<pc, choice, locals, api_key, collectArgs, catIdx, all_data,
              pulled, pulse_data, httpLog, callLog, summary, chart, uncaught>>

----------------------------------------------------------------------------
(* Bounds of the model *)

MaxSingles == 2      \* articles added one by one to a news_data
MaxBursts == 4       \* bursts of BurstSize articles added to a news_data
BurstSize == 25      \* articles of one burst

----------------------------------------------------------------------------
(* Python values *)

PyNone == -1         \* None, among source names (ids >= 0; id 0 is "")

Min(a, b) == IF a <= b THEN a ELSE b

\* The outcome of a call of calculate_pulse_score: the value returned, or the
\* exception raised; unique, recent and hits are the locals unique_sources,
\* recent_articles and (sports scorer only) keyword_count at the return.
Returned(v, u, r) ==
    [kind |-> "ok", val |-> v, exc |-> "", unique |-> u, recent |-> r,
     hits |-> 0]
ReturnedSports(v, u, r, k) == [Returned(v, u, r) EXCEPT !.hits = k]
Raised(e) ==
    [kind |-> "raise", val |-> 0, exc |-> e, unique |-> 0, recent |-> 0,
     hits |-> 0]
NotRun ==
    [kind |-> "notrun", val |-> 0, exc |-> "", unique |-> 0, recent |-> 0,
     hits |-> 0]

----------------------------------------------------------------------------
(* Articles.  An article is a record of three fields, each holding what   *)
(* the provider's JSON can hold there:                                      *)
(*   source:      absent | null | emptydict | nondict (a truthy non-dict,   *)
(*                e.g. a string) | dict, with the dict's "name" absent |    *)
(*                null | str (id 0 is the empty string)                     *)
(*   publishedAt: absent | null | empty | nonstr | garbage | naive | aware  *)
(*                (a parseable ISO-8601 string without / with a 'Z' or      *)
(*                offset suffix), age = minutes between it and now          *)
(*   title:       absent | null | nonstr | str, s = its characters          *)

Source(k, nk, id) == [k |-> k, nk |-> nk, id |-> id]
NoSource == Source("absent", "absent", 0)
Named(id) == Source("dict", "str", id)

Published(k, age) == [k |-> k, age |-> age]
NoDate == Published("absent", 0)

Title(k, s) == [k |-> k, s |-> s]
NoTitle == Title("absent", <<>>)

Article(src, pub, ttl) == [source |-> src, publishedAt |-> pub, title |-> ttl]

TitlePlain == <<"M", "a", "r", "k", "e", "t", "s">>
TitleWin == <<"W", "i", "n">>
TitleWinWin == <<"w", "i", "n", " ", "w", "i", "n">>
TitleWinner == <<"w", "i", "n", "n", "e", "r">>
TitleBowl == <<"S", "u", "p", "e", "r", " ", "B", "o", "w", "l", " ",
               "g", "a", "m", "e", " ", "s", "c", "o", "r", "e">>

----------------------------------------------------------------------------
(* str.lower() and the substring test `kw in title` *)

UpperToLower ==
    ("A" :> "a") @@ ("B" :> "b") @@ ("C" :> "c") @@ ("D" :> "d") @@
    ("E" :> "e") @@ ("F" :> "f") @@ ("G" :> "g") @@ ("H" :> "h") @@
    ("I" :> "i") @@ ("J" :> "j") @@ ("K" :> "k") @@ ("L" :> "l") @@
    ("M" :> "m") @@ ("N" :> "n") @@ ("O" :> "o") @@ ("P" :> "p") @@
    ("Q" :> "q") @@ ("R" :> "r") @@ ("S" :> "s") @@ ("T" :> "t") @@
    ("U" :> "u") @@ ("V" :> "v") @@ ("W" :> "w") @@ ("X" :> "x") @@
    ("Y" :> "y") @@ ("Z" :> "z")

lower(s) ==
    [i \in 1..Len(s) |->
        IF s[i] \in DOMAIN UpperToLower THEN UpperToLower[s[i]] ELSE s[i]]

Contains(kw, s) ==
    \E i \in 0..(Len(s) - Len(kw)) :
        \A j \in 1..Len(kw) : s[i + j] = kw[j]

sports_keywords == <<
    <<"s", "u", "p", "e", "r", " ", "b", "o", "w", "l">>,
    <<"c", "h", "a", "m", "p", "i", "o", "n", "s", "h", "i", "p">>,
    <<"p", "l", "a", "y", "o", "f", "f", "s">>,
    <<"f", "i", "n", "a", "l", "s">>,
    <<"w", "o", "r", "l", "d", " ", "c", "u", "p">>,
    <<"o", "l", "y", "m", "p", "i", "c", "s">>,
    <<"g", "a", "m", "e">>,
    <<"v", "i", "c", "t", "o", "r", "y">>,
    <<"w", "i", "n">>,
    <<"s", "c", "o", "r", "e">>>>

----------------------------------------------------------------------------
(* dict.get chains of the scorers *)

\* `if article.get('source')`: the truthiness of the source field
SourceTruthy(a) == a.source.k \in {"nondict", "dict"}

\* article.get('source', {}).get('name') raises AttributeError on a non-dict
SourceNameRaises(a) == a.source.k = "nondict"

\* article.get('source', {}).get('name') for a dict source: None when the
\* name is absent or null, the name otherwise
SourceName(a) == IF a.source.nk = "str" THEN a.source.id ELSE PyNone

\* (article.get('title') or '').lower() raises AttributeError on a truthy
\* non-string
TitleRaises(a) == a.title.k = "nonstr"

\* Mutant: the title matched as written, without .lower()
TitleAsWritten(a) == IF a.title.k = "str" THEN a.title.s ELSE <<>>

TitleLower(a) == IF a.title.k = "str" THEN lower(a.title.s) ELSE <<>>

----------------------------------------------------------------------------
(* _is_recent(published_at, now): identical in every puller *)

\* (now - pub_date).days: timedelta normalises to whole days by floor
TimedeltaDays(ageMinutes) == ageMinutes \div 1440

_is_recent(pub) ==
    IF pub.k \in {"absent", "null", "empty"} THEN FALSE   \* not published_at
    ELSE IF pub.k = "nonstr" THEN FALSE      \* .replace: AttributeError, caught
    ELSE IF pub.k = "garbage" THEN FALSE     \* fromisoformat: ValueError, caught
    ELSE IF pub.k = "aware" THEN FALSE       \* naive now - aware: TypeError, caught
    ELSE TimedeltaDays(pub.age) < 1

----------------------------------------------------------------------------
(* calculate_pulse_score *)

unique_sources(articles) ==
    Cardinality({SourceName(articles[i]) :
                    i \in {j \in 1..Len(articles) : SourceTruthy(articles[j])}})

recent_articles(articles) ==
    Cardinality({i \in 1..Len(articles) : _is_recent(articles[i].publishedAt)})

\* sum(1 for kw in sports_keywords if kw in title), summed over the titles
KeywordHits(t) ==
    Cardinality({k \in 1..Len(sports_keywords) : Contains(sports_keywords[k], t)})

\* (the loop's running sum, added up by halves of the list)
RECURSIVE keyword_count(_)
keyword_count(articles) ==
    IF articles = <<>> THEN 0
    ELSE IF Len(articles) = 1 THEN KeywordHits(TitleLower(articles[1]))
    ELSE LET half == Len(articles) \div 2
         IN  keyword_count(SubSeq(articles, 1, half))
             + keyword_count(SubSeq(articles, half + 1, Len(articles)))

\* `not news_data or 'articles' not in news_data`
NoArticles(nd) == nd.shape \in {"none", "emptydict", "nokey"}

\* Mutant: one article too many in the volume term
StdVolumeOffByOne(n) == Min(4000, 40 * (n + 1))

\* Mutant: the recency term with the sports scorer's denominator of 20
StdRecencyOverTwenty(r) == Min(3000, 150 * r)

StdVolume(n) == Min(4000, 40 * n)              \* min(40, (n / 100) * 40)
StdDiversity(u) == Min(3000, 150 * u)          \* min(30, (u / 20) * 30)
StdRecency(r) == Min(3000, 100 * r)            \* min(30, (r / 30) * 30)

\* news_data.get('articles', []) is None when the key holds null: len(None)
NullArticles(nd) == nd.shape = "nullarticles"

StandardTotal(articles) ==
    StdVolume(Len(articles))
    + StdDiversity(unique_sources(articles))
    + StdRecency(recent_articles(articles))

StandardScore(nd) ==
    IF NoArticles(nd) THEN Returned(0, 0, 0)
    ELSE IF NullArticles(nd) THEN Raised("TypeError")
    ELSE IF \E i \in 1..Len(nd.articles) :
                SourceTruthy(nd.articles[i]) /\ SourceNameRaises(nd.articles[i])
         THEN Raised("AttributeError")
    ELSE Returned(StandardTotal(nd.articles),
                  unique_sources(nd.articles), recent_articles(nd.articles))

\* round(((n / 100) ** 0.7) * 35 * 100) for n = 0 .. 99
VolumeCurve == <<
    0, 139, 226, 301, 368, 430, 488, 544, 597, 649,
    698, 747, 793, 839, 884, 928, 970, 1012, 1054, 1094,
    1134, 1174, 1213, 1251, 1289, 1326, 1363, 1400, 1436, 1471,
    1507, 1542, 1576, 1611, 1645, 1678, 1712, 1745, 1778, 1811,
    1843, 1875, 1907, 1939, 1970, 2001, 2032, 2063, 2094, 2124,
    2155, 2185, 2214, 2244, 2274, 2303, 2332, 2361, 2390, 2419,
    2448, 2476, 2505, 2533, 2561, 2589, 2617, 2644, 2672, 2699,
    2727, 2754, 2781, 2808, 2835, 2862, 2888, 2915, 2941, 2968,
    2994, 3020, 3046, 3072, 3098, 3124, 3149, 3175, 3200, 3226,
    3251, 3276, 3302, 3327, 3352, 3377, 3401, 3426, 3451, 3475>>

SportsVolume(n) == IF n >= 100 THEN 3500 ELSE VolumeCurve[n + 1]
SportsDiversity(u) == Min(2500, 125 * u)       \* min(25, (u / 20) * 25)
SportsRecency(r) == Min(4000, 200 * r)         \* min(40, (r / 20) * 40)
SportsKeyword(k) == Min(1500, 50 * k)          \* min(15, (k / 30) * 15)

\* total_score = volume_score + diversity_score + recency_score
\*               + keyword_intensity
SportsTotal(article_count, unique, recent, hits) ==
    SportsVolume(article_count)
    + SportsDiversity(unique)
    + SportsRecency(recent)
    + SportsKeyword(hits)

\* Mutant: the total returned without the cap at 100
SportsCapDropped(total) == total

SportsCap(total) == Min(10000, total)          \* round(min(100, total), 2)

SportsScore(nd) ==
    IF NoArticles(nd) THEN Returned(0, 0, 0)
    ELSE IF NullArticles(nd) THEN Raised("TypeError")
    ELSE IF \E i \in 1..Len(nd.articles) :
                \/ SourceTruthy(nd.articles[i]) /\ SourceNameRaises(nd.articles[i])
                \/ TitleRaises(nd.articles[i])
         THEN Raised("AttributeError")
    ELSE LET article_count == Len(nd.articles)
             unique == unique_sources(nd.articles)
             recent == recent_articles(nd.articles)
             hits == keyword_count(nd.articles)
         IN  ReturnedSports(
                SportsCap(SportsTotal(article_count, unique, recent, hits)),
                unique, recent, hits)

----------------------------------------------------------------------------
(* The article sets the scorers are run on *)

NewsData(shape, articles) ==
    [shape |-> shape, articles |-> articles, totalResults |-> Len(articles)]

SingleArticles == {
    Article(NoSource, NoDate, NoTitle),
    Article(Source("null", "absent", 0), Published("null", 0), Title("null", <<>>)),
    Article(Source("emptydict", "absent", 0), Published("empty", 0), NoTitle),
    Article(Source("nondict", "absent", 0), NoDate, NoTitle),
    Article(Source("dict", "absent", 0), NoDate, NoTitle),
    Article(Source("dict", "null", 0), NoDate, Title("str", TitlePlain)),
    Article(Named(0), NoDate, NoTitle),
    Article(Named(1), NoDate, NoTitle),
    Article(Named(1), Published("naive", 1439), Title("str", TitleWin)),
    Article(Named(2), Published("naive", 1441), Title("str", TitleWinWin)),
    Article(NoSource, Published("aware", 1439), Title("str", TitleBowl)),
    Article(NoSource, Published("aware", 1441), Title("str", TitleWinner)),
    Article(NoSource, Published("garbage", 0), NoTitle),
    Article(NoSource, Published("nonstr", 0), NoTitle),
    Article(NoSource, Published("naive", -60), Title("nonstr", <<>>)) }

\* A burst of breaking coverage: BurstSize articles just published, each from
\* a source of its own, each title with one keyword.
Burst(first) ==
    [i \in 1..BurstSize |->
        Article(Named(first + i), Published("naive", 0), Title("str", TitleWin))]

\* Fifty articles from ten sources, fifteen of them an hour old and the rest
\* two days old
StdScenario ==
    [i \in 1..50 |->
        Article(Named(1 + (i % 10)),
                Published("naive", IF i <= 15 THEN 60 ELSE 2880), NoTitle)]

BurstsIn(articles) ==
    Cardinality({i \in 1..Len(articles) : articles[i].source.id > 2})

SinglesIn(articles) == Len(articles) - BurstsIn(articles)

ScoreInit ==
    /\ news_data \in
          {NewsData(sh, <<>>) :
              sh \in {"ok", "none", "emptydict", "nokey", "nullarticles"}}
          \cup {NewsData("ok", StdScenario)}
    /\ stdResult = NotRun
    /\ sportsResult = NotRun

AddBurst ==
    /\ news_data.shape = "ok"
    /\ news_data.articles # StdScenario
    /\ stdResult = NotRun /\ sportsResult = NotRun
    /\ SinglesIn(news_data.articles) = 0
    /\ Len(news_data.articles) < MaxBursts * BurstSize
    /\ news_data' = NewsData("ok",
           news_data.articles \o Burst(2 + Len(news_data.articles)))
    /\ UNCHANGED <<stdResult, sportsResult>>

AddArticle(a) ==
    /\ news_data.shape = "ok"
    /\ news_data.articles # StdScenario
    /\ stdResult = NotRun /\ sportsResult = NotRun
    /\ SinglesIn(news_data.articles) < MaxSingles
    /\ news_data' = NewsData("ok", Append(news_data.articles, a))
    /\ UNCHANGED <<stdResult, sportsResult>>

\* PoliticsDataPuller / TechDataPuller / EnvironmentDataPuller
\* .calculate_pulse_score(news_data)
CalcStandard ==
    /\ stdResult = NotRun
    /\ stdResult' = StandardScore(news_data)
    /\ UNCHANGED <<news_data, sportsResult>>

\* SportsDataPuller.calculate_pulse_score(news_data)
CalcSports ==
    /\ sportsResult = NotRun
    /\ sportsResult' = SportsScore(news_data)
    /\ UNCHANGED <<news_data, stdResult>>

----------------------------------------------------------------------------
(* RadarChart.py: the fixed category list *)

Categories == <<"Sports", "Politics", "Tech/Science", "Economy", "Trends",
                "Entertainment", "Health", "Environment">>

NumCategories == Len(Categories)

----------------------------------------------------------------------------
(* normalize_scores_relative.  avg_score = np.mean(scores) is the rational  *)
(* total / n; the comparisons and quotients below are the code's, cleared   *)
(* of that denominator.  round(x, 2) of a value in points is RoundDiv of    *)
(* the value in hundredths.                                                 *)

RECURSIVE SumScores(_)
SumScores(data) ==
    IF data = <<>> THEN 0 ELSE Head(data).pulse_score + SumScores(Tail(data))

\* round(): to the nearest integer, halves to the even one
RoundDiv(num, den) ==
    LET q == num \div den
        r == num % den
    IN  IF 2 * r < den THEN q
        ELSE IF 2 * r > den THEN q + 1
        ELSE IF q % 2 = 0 THEN q ELSE q + 1

\* min(100, original_score * boost_factor) when avg_score is 0: the quotient
\* (original_score - avg_score) / avg_score is the numpy scalar 0.0 / 0.0,
\* which is nan (numpy warns, it does not raise); the product is nan, and the
\* builtin min(100, nan) keeps its first argument since nan < 100 is False.
MinOfNaN == 10000

\* Mutant: boost_factor without its leading 1
BoostedNoOne(s, n, total) ==
    IF total = 0 THEN 10000
    ELSE Min(10000, RoundDiv(s * (2 * n * s - 2 * total), total))

\* original_score >= avg_score: boost_factor = 1 + ((s - avg) / avg) * 2,
\* new_score = min(100, s * boost_factor)
Boosted(s, n, total) ==
    IF total = 0 THEN MinOfNaN
    ELSE Min(10000, RoundDiv(s * (2 * n * s - total), total))

\* Mutant: the suppressed score scaled by 1.8 instead of 0.8
SuppressedAmplified(s, n, total) == RoundDiv(9 * n * s * s, 5 * total)

\* original_score < avg_score: suppress_factor = s / avg,
\* new_score = s * suppress_factor * 0.8
Suppressed(s, n, total) == RoundDiv(4 * n * s * s, 5 * total)

NewScore(s, n, total) ==
    IF s * n >= total THEN Boosted(s, n, total) ELSE Suppressed(s, n, total)

\* Mutant: original_score written after pulse_score has been overwritten
NormalizedRecordScoreTwice(d, n, total) ==
    [k \in DOMAIN d \cup {"pulse_score", "original_score"} |->
        IF k \in {"pulse_score", "original_score"}
        THEN NewScore(d.pulse_score, n, total)
        ELSE d[k]]

\* {**d, 'pulse_score': round(new_score, 2), 'original_score': original_score}
NormalizedRecord(d, n, total) ==
    [k \in DOMAIN d \cup {"pulse_score", "original_score"} |->
        IF k = "pulse_score" THEN NewScore(d.pulse_score, n, total)
        ELSE IF k = "original_score" THEN d.pulse_score
        ELSE d[k]]

normalize_scores_relative(data) ==
    IF data = <<>> THEN data
    ELSE [i \in 1..Len(data) |->
            NormalizedRecord(data[i], Len(data), SumScores(data))]

\* Mutant: d['pulse_score'] and d['original_score'] assigned on the input's
\* own dicts
InputUpdatedInPlace(data) == normalize_scores_relative(data)

\* The caller's list after the call: normalized = [] is a new list and
\* {**d, ...} a new dict for every record, so nothing of data is assigned to
InputAfterNormalize(data) == data

----------------------------------------------------------------------------
(* The score lists normalize_scores_relative is run on *)

MaxLen == 3          \* records of a score list

NormScores == {0, 1, 2500, 5000, 7500, 10000}

\* The placeholder record of collect_all_data's except branch
Placeholder(category) ==
    [category |-> category, pulse_score |-> 0, article_count |-> 0,
     total_results |-> 0]

ScoreRecord(category, score) ==
    [category |-> category, pulse_score |-> score, article_count |-> 1,
     total_results |-> 1, days_analyzed |-> 7]

ScoreLists ==
    UNION {[1..n -> NormScores] : n \in 0..MaxLen}

NormInit ==
    /\ \E scores \in ScoreLists :
          normIn = [i \in 1..Len(scores) |->
                      IF scores[i] = 0 THEN Placeholder(Categories[i])
                      ELSE ScoreRecord(Categories[i], scores[i])]
    /\ normOut = [called |-> FALSE, val |-> <<>>]

Normalize ==
    /\ ~normOut.called
    /\ normOut' = [called |-> TRUE, val |-> normalize_scores_relative(normIn)]
    /\ normIn' = InputAfterNormalize(normIn)

----------------------------------------------------------------------------
(* The pullers: fetch_*_news, calculate_pulse_score, get_*_pulse.  Sports   *)
(* has its own scorer and takes the date range; the seven other categories  *)
(* share the standard scorer and take days_back only.                       *)

NoKey == ""          \* `not self.api_key`: NEWS_API_KEY unset (None) or empty
NoDateArg == ""      \* start_date / end_date left at None

\* What requests.get, raise_for_status and response.json() can do
RespGood ==
    NewsData("ok", <<Article(Named(1), Published("naive", 1439), Title("str", TitleWin)),
                     Article(Named(2), Published("naive", 1441), Title("str", TitleWinWin))>>)
RespBad ==
    NewsData("ok", <<Article(Source("nondict", "absent", 0), NoDate, NoTitle)>>)

HttpOutcomes ==
    {[kind |-> "HTTPError", body |-> NewsData("ok", <<>>)],
     [kind |-> "json", body |-> RespGood],
     [kind |-> "json", body |-> RespBad]}

\* The 'from' / 'to' parameters of the query
QueryRange(cat, args) ==
    IF cat = "Sports" /\ args.start_date # NoDateArg /\ args.end_date # NoDateArg
    THEN [kind |-> "dates", days |-> 0,
          start |-> args.start_date, end |-> args.end_date]
    ELSE [kind |-> "days_back", days |-> args.days_back,
          start |-> NoDateArg, end |-> NoDateArg]

\* Mutant: the request is built and sent without looking at the key
KeyNeverMissing(key) == FALSE

\* `if not self.api_key: raise ValueError(...)`, the first statement of
\* every fetch_*_news
KeyMissing(key) == key = NoKey

fetch_news(cat, key, args, outcome) ==
    IF KeyMissing(key)
    THEN [kind |-> "raise", exc |-> "ValueError", requests |-> <<>>,
          body |-> NewsData("ok", <<>>)]
    ELSE LET req == [category |-> cat, range |-> QueryRange(cat, args)]
         IN  IF outcome.kind = "HTTPError"
             THEN [kind |-> "raise", exc |-> "HTTPError", requests |-> <<req>>,
                   body |-> NewsData("ok", <<>>)]
             ELSE [kind |-> "ok", exc |-> "", requests |-> <<req>>,
                   body |-> outcome.body]

\* The pullers RadarChart.py imports whose modules are not among the sources:
\* by the specification they share the standard profile
StandardProfileOnly == {"Economy", "Trends", "Entertainment", "Health"}

calculate_pulse_score(cat, nd) ==
    IF cat = "Sports" THEN SportsScore(nd)
    ELSE IF cat \in StandardProfileOnly THEN StandardScore(nd)
    ELSE StandardScore(nd)

NoData == [category |-> ""]

get_pulse(cat, key, args, outcome) ==
    LET f == fetch_news(cat, key, args, outcome)
        sc == calculate_pulse_score(cat, f.body)
    IN  IF f.kind = "raise"
        THEN [kind |-> "raise", exc |-> f.exc, requests |-> f.requests,
              data |-> NoData]
        ELSE IF sc.kind = "raise"
        THEN [kind |-> "raise", exc |-> sc.exc, requests |-> f.requests,
              data |-> NoData]
        ELSE [kind |-> "ok", exc |-> "", requests |-> f.requests,
              data |-> [category |-> cat,
                        pulse_score |-> sc.val,
                        article_count |-> Len(f.body.articles),
                        total_results |-> f.body.totalResults,
                        days_analyzed |-> args.days_back]]

----------------------------------------------------------------------------
(* collect_all_data: one iteration of `for category, puller in pullers` *)

\* Mutant: the failure is printed and nothing is appended
OnErrorSkip(data, cat) == data

\* except Exception: append the placeholder
OnError(data, cat) == Append(data, Placeholder(cat))

\* try: data = puller.get_*_pulse(...); all_data.append(data)
LoopBody(data, cat, r) ==
    IF r.kind = "ok" THEN Append(data, r.data) ELSE OnError(data, cat)

----------------------------------------------------------------------------
(* print_summary: sorted(data, key=pulse_score, reverse=True), a stable     *)
(* sort into a new list                                                     *)

InsertDesc(sortedSeq, d) ==
    LET k == Cardinality({i \in 1..Len(sortedSeq) :
                            sortedSeq[i].pulse_score >= d.pulse_score})
    IN  SubSeq(sortedSeq, 1, k) \o <<d>> \o SubSeq(sortedSeq, k + 1, Len(sortedSeq))

RECURSIVE sorted(_)
sorted(data) ==
    IF data = <<>> THEN <<>>
    ELSE InsertDesc(sorted(SubSeq(data, 1, Len(data) - 1)), data[Len(data)])

\* Mutant: data.sort(key=..., reverse=True) on the caller's list
DataSortedInPlace(data) == sorted(data)

\* The caller's list after print_summary: sorted() builds sorted_data and
\* leaves data as it was
DataAfterSummary(data) == data

----------------------------------------------------------------------------
(* interactive_menu, statement by statement (pc is the source line) *)

Unbound == [bound |-> FALSE, val |-> <<>>]
Bound(v) == [bound |-> TRUE, val |-> v]

Choices == {"1", "2", "3", "4", "5", "9"}

ModeEntry(c) ==
    CASE c = "1" -> "L320"
      [] c = "2" -> "L328"
      [] c = "3" -> "L344"
      [] c = "4" -> "L370"
      [] c = "5" -> "L396"
      [] OTHER -> "L425"

\* The statement after each statement, in the order the source lists them
NextStmt ==
    [l \in {"L320", "L321", "L322", "L324",
            "L328", "L331", "L332", "L333", "L335",
            "L344", "L350", "L357", "L358",
            "L370", "L372",
            "L396", "L408", "L413", "L414", "L418"} |->
        CASE l = "L320" -> "L321" [] l = "L321" -> "L322"
          [] l = "L322" -> "L324" [] l = "L324" -> "L428"
          [] l = "L328" -> "L331" [] l = "L331" -> "L332"
          [] l = "L332" -> "L333" [] l = "L333" -> "L335"
          [] l = "L335" -> "L428"
          [] l = "L344" -> "L350" [] l = "L350" -> "L357"
          [] l = "L357" -> "L358" [] l = "L358" -> "L359"
          [] l = "L370" -> "L372" [] l = "L372" -> "L373"
          [] l = "L396" -> "L408" [] l = "L408" -> "L413"
          [] l = "L413" -> "L414" [] l = "L414" -> "L418"
          [] l = "L418" -> "L428"]

CollectStmts == {"L320", "L332", "L358", "L372", "L408"}
NormalizeStmts == {"L321", "L331", "L357", "L370", "L413"}
SummaryStmts == {"L322", "L333", "L414"}
ChartStmts == {"L324", "L335", "L418"}

\* The arguments each call statement passes to collect_all_data
ArgsAt(l, loc) ==
    IF l = "L320"
    THEN [days_back |-> 7, start_date |-> NoDateArg, end_date |-> NoDateArg]
    ELSE IF l = "L408"
    THEN [days_back |-> 1, start_date |-> loc.specific_date,
          end_date |-> loc.specific_date]
    ELSE [days_back |-> loc.days, start_date |-> NoDateArg,
          end_date |-> NoDateArg]

NoArgs == [days_back |-> 0, start_date |-> NoDateArg, end_date |-> NoDateArg]

MenuInit ==
    /\ pc = "L313"
    /\ choice = ""
    /\ locals = [days |-> 0, num_periods |-> 0, specific_date |-> NoDateArg]
    /\ api_key \in {NoKey, "key"}
    /\ collectArgs = NoArgs
    /\ catIdx = 0
    /\ all_data = <<>>
    /\ pulled = <<>>
    /\ pulse_data = Unbound
    /\ httpLog = <<>>
    /\ callLog = <<>>
    /\ summary = <<>>
    /\ chart = <<>>
    /\ uncaught = ""

\* line 313: choice = input(...).strip(), and the dispatch on it
ReadChoice ==
    /\ pc = "L313"
    /\ \E c \in Choices :
          /\ choice' = c
          /\ pc' = ModeEntry(c)
    /\ UNCHANGED <<locals, api_key, collectArgs, catIdx, all_data, pulled,
                   pulse_data, httpLog, callLog, summary, chart, uncaught>>

\* lines 328-329: days = int(input(...)) or 7
ReadDays ==
    /\ pc = "L328"
    /\ \E d \in {7, 14} : locals' = [locals EXCEPT !.days = d]
    /\ pc' = NextStmt[pc]
    /\ UNCHANGED <<choice, api_key, collectArgs, catIdx, all_data, pulled,
                   pulse_data, httpLog, callLog, summary, chart, uncaught>>

\* lines 344-345: num_periods = min(5, max(2, int(input(...))))
ReadPeriods ==
    /\ pc = "L344"
    /\ \E n \in {2, 5} : locals' = [locals EXCEPT !.num_periods = n]
    /\ pc' = NextStmt[pc]
    /\ UNCHANGED <<choice, api_key, collectArgs, catIdx, all_data, pulled,
                   pulse_data, httpLog, callLog, summary, chart, uncaught>>

\* lines 350-356: the days and the label of one period
ReadPeriodDays ==
    /\ pc = "L350"
    /\ \E d \in {7, 14} : locals' = [locals EXCEPT !.days = d]
    /\ pc' = NextStmt[pc]
    /\ UNCHANGED <<choice, api_key, collectArgs, catIdx, all_data, pulled,
                   pulse_data, httpLog, callLog, summary, chart, uncaught>>

\* lines 396-404: the date of mode 5
ReadDate ==
    /\ pc = "L396"
    /\ \E d \in {"2026-02-09", "2025-12-25"} :
          locals' = [locals EXCEPT !.specific_date = d]
    /\ pc' = NextStmt[pc]
    /\ UNCHANGED <<choice, api_key, collectArgs, catIdx, all_data, pulled,
                   pulse_data, httpLog, callLog, summary, chart, uncaught>>

\* a call of radar.collect_all_data(...): lines 42-61
CallCollect ==
    /\ pc \in CollectStmts
    /\ catIdx = 0
    /\ collectArgs' = ArgsAt(pc, locals)
    /\ all_data' = <<>>
    /\ pulled' = <<>>
    /\ catIdx' = 1
    /\ callLog' = Append(callLog, "collect_call")
    /\ UNCHANGED <<pc, choice, locals, api_key, pulse_data, httpLog, summary,
                   chart, uncaught>>

\* lines 63-96: one iteration of the loop over the pullers
CollectCategory ==
    /\ pc \in CollectStmts
    /\ catIdx \in 1..NumCategories
    /\ \E outcome \in HttpOutcomes :
          LET cat == Categories[catIdx]
              r == get_pulse(cat, api_key, collectArgs, outcome)
          IN  /\ pulled' = Append(pulled, r)
              /\ httpLog' = httpLog \o r.requests
              /\ all_data' = LoopBody(all_data, cat, r)
    /\ catIdx' = catIdx + 1
    /\ UNCHANGED <<pc, choice, locals, api_key, collectArgs, pulse_data,
                   callLog, summary, chart, uncaught>>

\* line 99: return all_data, bound to the caller's pulse_data (data)
ReturnCollect ==
    /\ pc \in CollectStmts
    /\ catIdx = NumCategories + 1
    /\ pulse_data' = Bound(all_data)
    /\ callLog' = Append(callLog, "collect_return")
    /\ catIdx' = 0
    /\ pc' = NextStmt[pc]
    /\ UNCHANGED <<choice, locals, api_key, collectArgs, all_data, pulled,
                   httpLog, summary, chart, uncaught>>

\* a statement x = radar.normalize_scores_relative(pulse_data): reading a
\* local that no statement has assigned yet raises UnboundLocalError, which
\* nothing in interactive_menu or main catches
CallNormalize ==
    /\ pc \in NormalizeStmts
    /\ IF pulse_data.bound
       THEN /\ pulse_data' = Bound(normalize_scores_relative(pulse_data.val))
            /\ all_data' = InputAfterNormalize(all_data)
            /\ callLog' = Append(callLog, "normalize")
            /\ pc' = NextStmt[pc]
            /\ UNCHANGED uncaught
       ELSE /\ uncaught' = "UnboundLocalError"
            /\ pc' = "raised"
            /\ UNCHANGED <<pulse_data, all_data, callLog>>
    /\ UNCHANGED <<choice, locals, api_key, collectArgs, catIdx, pulled,
                   httpLog, summary, chart>>

\* radar.print_summary(pulse_data)
PrintSummary ==
    /\ pc \in SummaryStmts
    /\ summary' = sorted(pulse_data.val)
    /\ pulse_data' = [pulse_data EXCEPT !.val = DataAfterSummary(@)]
    /\ pc' = NextStmt[pc]
    /\ UNCHANGED <<choice, locals, api_key, collectArgs, catIdx, all_data,
                   pulled, httpLog, callLog, chart, uncaught>>

\* radar.create_radar_chart(pulse_data, ...)
CreateChart ==
    /\ pc \in ChartStmts
    /\ chart' = pulse_data.val
    /\ pc' = NextStmt[pc]
    /\ UNCHANGED <<choice, locals, api_key, collectArgs, catIdx, all_data,
                   pulled, pulse_data, httpLog, callLog, summary, uncaught>>

\* lines 425-426 (invalid choice) and 428-429 (analysis complete)
Return ==
    /\ pc \in {"L425", "L428"}
    /\ pc' = "returned"
    /\ UNCHANGED <<choice, locals, api_key, collectArgs, catIdx, all_data,
                   pulled, pulse_data, httpLog, callLog, summary, chart,
                   uncaught>>

----------------------------------------------------------------------------
(* Specifications *)

ScoreIdle == news_data = NewsData("ok", <<>>) /\ stdResult = NotRun /\ sportsResult = NotRun
NormIdle == normIn = <<>> /\ normOut = [called |-> FALSE, val |-> <<>>]
MenuIdle ==
    /\ pc = "idle" /\ choice = "" /\ api_key = NoKey /\ collectArgs = NoArgs
    /\ locals = [days |-> 0, num_periods |-> 0, specific_date |-> NoDateArg]
    /\ catIdx = 0 /\ all_data = <<>> /\ pulled = <<>> /\ pulse_data = Unbound
    /\ httpLog = <<>> /\ callLog = <<>> /\ summary = <<>> /\ chart = <<>>
    /\ uncaught = ""

\* The interactive run: main() -> interactive_menu()
Init == MenuInit /\ ScoreIdle /\ NormIdle

Next ==
    \/ ReadChoice /\ UNCHANGED <<scoreVars, normVars>>
    \/ ReadDays /\ UNCHANGED <<scoreVars, normVars>>
    \/ ReadPeriods /\ UNCHANGED <<scoreVars, normVars>>
    \/ ReadPeriodDays /\ UNCHANGED <<scoreVars, normVars>>
    \/ ReadDate /\ UNCHANGED <<scoreVars, normVars>>
    \/ CallCollect /\ UNCHANGED <<scoreVars, normVars>>
    \/ CollectCategory /\ UNCHANGED <<scoreVars, normVars>>
    \/ ReturnCollect /\ UNCHANGED <<scoreVars, normVars>>
    \/ CallNormalize /\ UNCHANGED <<scoreVars, normVars>>
    \/ PrintSummary /\ UNCHANGED <<scoreVars, normVars>>
    \/ CreateChart /\ UNCHANGED <<scoreVars, normVars>>
    \/ Return /\ UNCHANGED <<scoreVars, normVars>>

Spec == Init /\ [][Next]_vars

\* calculate_pulse_score on the article sets of SingleArticles and Burst
InitScore == ScoreInit /\ NormIdle /\ MenuIdle

NextScore ==
    \/ AddBurst /\ UNCHANGED <<normVars, menuVars>>
    \/ (\E a \in SingleArticles : AddArticle(a)) /\ UNCHANGED <<normVars, menuVars>>
    \/ CalcStandard /\ UNCHANGED <<normVars, menuVars>>
    \/ CalcSports /\ UNCHANGED <<normVars, menuVars>>

SpecScore == InitScore /\ [][NextScore]_vars

\* normalize_scores_relative on the score lists of ScoreLists
InitNorm == NormInit /\ ScoreIdle /\ MenuIdle

NextNorm == Normalize /\ UNCHANGED <<scoreVars, menuVars>>

SpecNorm == InitNorm /\ [][NextNorm]_vars

----------------------------------------------------------------------------
(* Properties *)

Results == {stdResult, sportsResult}

\* collect_all_data has returned its list
Collected == \E i \in 1..Len(callLog) : callLog[i] = "collect_return"

\* C1: whatever the article set, a score calculate_pulse_score returns lies
\* in [0, 100], under the standard and under the sports profile.
C1_ScoreInRange ==
    \A r \in Results : r.kind = "ok" => (r.val >= 0 /\ r.val <= 10000)

\* C1 witness: a sports article set whose four components sum to 115
C1_CapReached ==
    /\ news_data.shape = "ok"
    /\ sportsResult.kind = "ok"
    /\ SportsVolume(Len(news_data.articles))
         + SportsDiversity(unique_sources(news_data.articles))
         + SportsRecency(recent_articles(news_data.articles))
         + SportsKeyword(keyword_count(news_data.articles)) = 11500
    /\ sportsResult.val = 10000

\* C2: a non-empty list whose scores are all 0 normalizes to a list whose
\* scores are all 0.
C2_AllZeroStaysZero ==
    (/\ normOut.called
     /\ normIn # <<>>
     /\ \A i \in 1..Len(normIn) : normIn[i].pulse_score = 0)
    => /\ Len(normOut.val) = Len(normIn)
       /\ \A i \in 1..Len(normOut.val) : normOut.val[i].pulse_score = 0

\* C3: collect_all_data returns one record per configured category, in the
\* loop's order: the zero placeholder with the category's name where the
\* puller raised, the puller's record where it returned; a failure does not
\* end the loop.
C3_OneRecordPerCategory ==
    /\ (pc \in CollectStmts /\ catIdx >= 1) =>
          (Len(all_data) = catIdx - 1 /\ Len(pulled) = catIdx - 1)
    /\ Collected =>
          /\ Len(all_data) = 8
          /\ Len(pulled) = 8
          /\ \A i \in 1..Len(pulled) :
                IF pulled[i].kind = "raise"
                THEN /\ all_data[i].category = Categories[i]
                     /\ all_data[i].pulse_score = 0
                     /\ all_data[i].article_count = 0
                     /\ all_data[i].total_results = 0
                ELSE all_data[i] = pulled[i].data

\* C3 witness: a run where a fetch failed, a scoring failed, and a later
\* category was still collected
C3_FailuresIsolated ==
    /\ Collected
    /\ \E i, j, k \in 1..Len(pulled) :
          /\ i < k /\ j < k
          /\ pulled[i].exc = "HTTPError"
          /\ pulled[j].exc = "AttributeError"
          /\ pulled[k].kind = "ok"
          /\ all_data[k].pulse_score > 0

\* C4: in every mode, control reaches a call of normalize_scores_relative
\* only after collect_all_data has returned, with the returned list as the
\* argument.
C4_CollectThenNormalize ==
    pc \in NormalizeStmts =>
        (Collected /\ pulse_data.bound /\ pulse_data.val = all_data)

\* C5: with the API key missing the collection call fails towards its
\* caller: it never returns a score list.
C5_MissingKeySurfaces ==
    api_key = NoKey => ~Collected

\* C6: in a run with no API key, no HTTP request is ever issued.
C6_NoRequestWithoutKey ==
    api_key = NoKey => httpLog = <<>>

\* C6 witness: a whole collection ran without a key
C6_CollectedWithoutKey ==
    api_key = NoKey /\ Collected /\ Len(pulled) = 8 /\ httpLog = <<>>

\* C7: when the mean is > 0, a score >= the mean normalizes to a value >=
\* itself and a score < the mean to a value <= itself.
C7_BoostAndSuppress ==
    (normOut.called /\ SumScores(normIn) > 0) =>
        \A i \in 1..Len(normIn) :
            LET s == normIn[i].pulse_score
                t == normOut.val[i].pulse_score
            IN  IF s * Len(normIn) >= SumScores(normIn) THEN t >= s ELSE t <= s

\* C7 witness: a list with an entry at the mean, an entry strictly boosted
\* and an entry strictly suppressed
C7_BothBranches ==
    /\ normOut.called
    /\ SumScores(normIn) > 0
    /\ \E i, j, k \in 1..Len(normIn) :
          /\ normIn[k].pulse_score * Len(normIn) = SumScores(normIn)
          /\ normOut.val[i].pulse_score > normIn[i].pulse_score
          /\ normIn[j].pulse_score > 0
          /\ normOut.val[j].pulse_score < normIn[j].pulse_score

\* The distinct non-empty source names of an article list
NonEmptyNames(articles) ==
    {articles[i].source.id :
        i \in {j \in 1..Len(articles) :
                 /\ articles[j].source.k = "dict"
                 /\ articles[j].source.nk = "str"
                 /\ articles[j].source.id # 0}}

\* C8: unique_sources is the number of distinct non-empty source names; a
\* present source whose name is absent or null adds nothing to it.
C8_OnlyNamesCounted ==
    \A r \in Results :
        (r.kind = "ok" /\ news_data.shape = "ok") =>
            r.unique = Cardinality(NonEmptyNames(news_data.articles))

\* C9: an article with a parseable timestamp, with or without a 'Z' or
\* offset suffix, is counted recent exactly when it is less than one day
\* (1440 minutes) older than now.
C9_RecentIffUnderOneDay ==
    \A r \in Results :
        (r.kind = "ok" /\ news_data.shape = "ok") =>
            r.recent = Cardinality(
                {i \in 1..Len(news_data.articles) :
                    /\ news_data.articles[i].publishedAt.k \in {"naive", "aware"}
                    /\ news_data.articles[i].publishedAt.age < 1440})

\* C10: on a list of articles, whatever is absent, null or malformed in an
\* article, calculate_pulse_score returns a score, and no article with a
\* missing or unparsable publishedAt is counted recent.
C10_NeverRaises ==
    \A r \in Results :
        news_data.shape = "ok" =>
            /\ r.kind # "raise"
            /\ r.kind = "ok" =>
                  r.recent <= Cardinality(
                      {i \in 1..Len(news_data.articles) :
                          news_data.articles[i].publishedAt.k \in {"naive", "aware"}})


\* C11: an empty or absent article set (news_data None or empty, no
\* 'articles' key, an empty articles list) scores exactly 0.0 under both
\* profiles.
C11_EmptyScoresZero ==
    \A r \in Results :
        (/\ r.kind # "notrun"
         /\ \/ news_data.shape \in {"none", "emptydict", "nokey"}
            \/ news_data.shape = "ok" /\ news_data.articles = <<>>)
        => (r.kind = "ok" /\ r.val = 0)

\* C11 witness: both scorers have run on an empty articles list
C11_EmptyListScored ==
    /\ news_data.shape = "ok" /\ news_data.articles = <<>>
    /\ stdResult.kind = "ok" /\ sportsResult.kind = "ok"

\* C12: under the standard profile the score is min(40, n/100*40) +
\* min(30, u/20*30) + min(30, r/30*30) for n articles, u unique sources and
\* r recent articles; the volume term never decreases with n and is 40 from
\* n = 100 on; n = 50, u = 10, r = 15 gives 50.00.
C12_StandardFormula ==
    (stdResult.kind = "ok" /\ news_data.shape = "ok") =>
        LET n == Len(news_data.articles)
            u == stdResult.unique
            r == stdResult.recent
            vol == IF 40 * n <= 4000 THEN 40 * n ELSE 4000
            div == IF 150 * u <= 3000 THEN 150 * u ELSE 3000
            rec == IF 100 * r <= 3000 THEN 100 * r ELSE 3000
        IN  /\ stdResult.val = vol + div + rec
            /\ \A m \in 0..n : StdVolume(m) <= StdVolume(m + 1)
            /\ StdVolume(n) <= 4000
            /\ n >= 100 => StdVolume(n) = 4000
            /\ (n = 50 /\ u = 10 /\ r = 15) => stdResult.val = 5000

\* C12 witness: the scenario of 50 articles, 10 sources, 15 recent scored
C12_ScenarioScored ==
    /\ news_data.articles = StdScenario
    /\ stdResult.kind = "ok"
    /\ stdResult.unique = 10 /\ stdResult.recent = 15
    /\ stdResult.val = 5000

\* The keywords that occur in a title, lower-cased
KeywordsPresent(title) ==
    IF title.k # "str" THEN 0
    ELSE LET t == lower(title.s)
         IN  Cardinality({k \in 1..Len(sports_keywords) :
                            Contains(sports_keywords[k], t)})

\* The occurrences of the keywords in a title, lower-cased
KeywordOccurrences(title) ==
    IF title.k # "str" THEN 0
    ELSE LET t == lower(title.s)
         IN  Cardinality(
                {<<k, i>> \in (1..Len(sports_keywords)) \X (0..Len(t)) :
                    /\ i + Len(sports_keywords[k]) <= Len(t)
                    /\ \A j \in 1..Len(sports_keywords[k]) :
                          t[i + j] = sports_keywords[k][j]})

\* Count summed over the titles of the articles: each distinct title's
\* count times the number of articles that carry it
RECURSIVE SumOverTitles(_, _, _)
SumOverTitles(Count(_), titles, articles) ==
    IF titles = {} THEN 0
    ELSE LET t == CHOOSE x \in titles : TRUE
         IN  Count(t)
               * Cardinality({i \in 1..Len(articles) : articles[i].title = t})
             + SumOverTitles(Count, titles \ {t}, articles)

SumOver(Count(_), articles) ==
    SumOverTitles(Count,
                  {articles[i].title : i \in 1..Len(articles)}, articles)

\* The sports score with a keyword bonus of min(15, hitCount/30*15)
SportsWithBonus(r, n, hitCount) ==
    LET bonus == IF 50 * hitCount <= 1500 THEN 50 * hitCount ELSE 1500
        total == SportsVolume(n) + SportsDiversity(r.unique)
                 + SportsRecency(r.recent) + bonus
    IN  IF total <= 10000 THEN total ELSE 10000

\* C13 as claimed: the bonus is min(15, hitCount/30*15) where hitCount sums
\* the occurrences of the keywords over the titles, a keyword that occurs k
\* times in a title counting k times.
C13_HitsAreOccurrences ==
    (sportsResult.kind = "ok" /\ news_data.shape = "ok") =>
        LET hitCount == SumOver(KeywordOccurrences, news_data.articles)
        IN  /\ sportsResult.hits = hitCount
            /\ sportsResult.val =
                  SportsWithBonus(sportsResult, Len(news_data.articles),
                                  hitCount)

\* C13 as amended: hitCount sums, over the titles, the number of keywords
\* that occur in the title at least once (case-insensitively).
C13_HitsAreKeywordsPresent ==
    (sportsResult.kind = "ok" /\ news_data.shape = "ok") =>
        LET hitCount == SumOver(KeywordsPresent, news_data.articles)
        IN  /\ sportsResult.hits = hitCount
            /\ sportsResult.val =
                  SportsWithBonus(sportsResult, Len(news_data.articles),
                                  hitCount)

\* C13 witness: more than 30 hits (the bonus at its cap), upper-case titles,
\* and a title that repeats a keyword
C13_BonusCapped ==
    /\ news_data.shape = "ok"
    /\ sportsResult.kind = "ok"
    /\ sportsResult.hits > 30
    /\ \E i \in 1..Len(news_data.articles) :
          news_data.articles[i].title = Title("str", TitleWinWin)


\* The categories of a list of records, in the list's order
CategoriesOf(data) == [i \in 1..Len(data) |-> data[i].category]

\* C14: the list collect_all_data returns, the list after
\* normalize_scores_relative and print_summary, and the list handed to the
\* chart all hold the eight categories once each in the configured order
\* Sports, Politics, Tech/Science, Economy, Trends, Entertainment, Health,
\* Environment, whichever categories failed and whatever the scores are.
C14_ConfiguredOrderKept ==
    /\ Categories = <<"Sports", "Politics", "Tech/Science", "Economy",
                      "Trends", "Entertainment", "Health", "Environment">>
    /\ Collected => CategoriesOf(all_data) = Categories
    /\ pulse_data.bound => CategoriesOf(pulse_data.val) = Categories
    /\ chart # <<>> => CategoriesOf(chart) = Categories

\* C14 witness: a chart drawn after a failure, from a list the summary
\* printed in another (score) order
C14_ChartNotInScoreOrder ==
    /\ chart # <<>>
    /\ summary # <<>>
    /\ CategoriesOf(summary) # CategoriesOf(chart)
    /\ \E i \in 1..Len(pulled) : pulled[i].kind = "raise"
    /\ \E i \in 1..Len(chart) : chart[i].pulse_score # chart[i].original_score

\* C15: every record normalize_scores_relative returns for a non-empty list
\* carries as original_score the pulse_score of the input record at the
\* same position.
C15_OriginalScoreKept ==
    (normOut.called /\ normIn # <<>>) =>
        /\ Len(normOut.val) = Len(normIn)
        /\ \A i \in 1..Len(normIn) :
              normOut.val[i].original_score = normIn[i].pulse_score

\* C15 witness: a normalized list where a score was raised and a score was
\* lowered
C15_ScoresChanged ==
    /\ normOut.called
    /\ \E i, j \in 1..Len(normOut.val) :
          /\ normOut.val[i].pulse_score > normOut.val[i].original_score
          /\ normOut.val[j].pulse_score < normOut.val[j].original_score

\* C16: when collect_all_data is given start_date and end_date, every
\* category's request is made for that date range.
C16_EveryCategoryUsesDates ==
    (collectArgs.start_date # NoDateArg /\ collectArgs.end_date # NoDateArg)
    => \A i \in 1..Len(httpLog) :
          /\ httpLog[i].range.kind = "dates"
          /\ httpLog[i].range.start = collectArgs.start_date
          /\ httpLog[i].range.end = collectArgs.end_date

\* C17: a call of normalize_scores_relative leaves its input list as it
\* was, and for a non-empty input no returned record is the input record.
C17_InputUnchanged ==
    [][/\ normIn' = normIn
       /\ (normOut'.called /\ normIn # <<>>) =>
             \A i \in 1..Len(normIn) :
                /\ normOut'.val[i] # normIn'[i]
                /\ "original_score" \notin DOMAIN normIn'[i]]_vars

\* C17 witness: the call has returned scores that differ from the input's
C17_OutputDiffers ==
    /\ normOut.called
    /\ normIn # <<>>
    /\ \A i \in 1..Len(normIn) :
          normOut.val[i].pulse_score # normIn[i].pulse_score

\* C18: with a mean above 0, an entry whose raw score is not above
\* another's has a normalized score that is not above the other's.
C18_RankingPreserved ==
    (normOut.called /\ normIn # <<>> /\ SumScores(normIn) > 0) =>
        \A i, j \in 1..Len(normIn) :
            normIn[i].pulse_score <= normIn[j].pulse_score
            => normOut.val[i].pulse_score <= normOut.val[j].pulse_score

\* C18 witness: a list with a suppressed entry, an entry boosted below the
\* cap and a different raw score cut at the cap
C18_AcrossMeanAndCap ==
    /\ normOut.called
    /\ \E i, j, k \in 1..Len(normIn) :
          /\ normIn[i].pulse_score * Len(normIn) < SumScores(normIn)
          /\ normIn[i].pulse_score > 0
          /\ normIn[j].pulse_score * Len(normIn) >= SumScores(normIn)
          /\ normOut.val[j].pulse_score < 10000
          /\ normIn[k].pulse_score > normIn[j].pulse_score
          /\ normIn[k].pulse_score < 10000
          /\ normOut.val[k].pulse_score = 10000

====
